---- MODULE Spec2Model ----
(***************************************************************************)
(* Session lifecycle engine of the two-player Pong server: GameManager     *)
(* (matchmaking queue, room registry, paddle moves, ball physics) and the  *)
(* socket handlers of server.ts (joinGame, paddleMove, disconnect, the     *)
(* 2000 ms start timer and the 60 Hz game loop).                           *)
(***************************************************************************)
EXTENDS Integers, Sequences, FiniteSets, TLC

\* ---------------------------------------------------------------- constants
GAME_WIDTH == 800
GAME_HEIGHT == 400
PADDLE_WIDTH == 20
PADDLE_HEIGHT == 80
BALL_SIZE == 20
BALL_SPEED == 3
PADDLE_SPEED == 8
WIN_SCORE == 5
PADDLE_MARGIN == 20

\* ------------------------------------------------------------------- bounds
\* socket ids that may ever connect (each socket id connects once)
MaxPlayers == 2
\* pending 2000 ms start timers
MaxGrace == 1
\* Spec explores the first MaxTickSteps ticks after each ball reset
MaxTickSteps == 2
\* Spec explores paddle rows from the start row to MaxMoveSteps moves above it
MaxMoveSteps == 1

\* the sockets that connect through the lobby
Players == 1..MaxPlayers
\* all socket ids: the lobby's and the two of a second room
Ids == 1..(MaxPlayers + 2)
MaxRooms == MaxPlayers
RoomIds == 1..MaxRooms
None == 0
Sides == {"left", "right"}
Dirs == {"up", "down"}
Signs == {-1, 1}

Max(a, b) == IF a >= b THEN a ELSE b
Min(a, b) == IF a <= b THEN a ELSE b
Abs(a) == IF a < 0 THEN -a ELSE a
Other(s) == IF s = "left" THEN "right" ELSE "left"

VARIABLES
  sock,            \* socket id -> "new" | "up" | "gone"
  rooms,           \* keys of GameManager.rooms
  room,            \* room id -> GameRoom object
  created,         \* number of room ids handed out so far
  waitingPlayers,  \* GameManager.waitingPlayers
  playerToRoom,    \* GameManager.playerToRoom (None = no entry)
  graceQ,          \* pending setTimeout(.., 2000) callbacks, in firing order
  intervals,       \* room id -> number of scheduled setInterval game loops
  out,             \* events emitted by the last handler
  last,            \* the last handler that ran
  hist,            \* room id -> ticks / paddle hits since the last ball reset
  gameEnds         \* room id -> the 'gameEnd' events emitted for the room

vars == <<sock, rooms, room, created, waitingPlayers, playerToRoom, graceQ,
          intervals, out, last, hist, gameEnds>>

\* ------------------------------------------------------------ GameManager
\* createInitialGameState: the ball of a fresh room
createInitialGameState(sx, sy) ==
  [x |-> GAME_WIDTH \div 2, y |-> GAME_HEIGHT \div 2,
   vx |-> BALL_SPEED * sx, vy |-> BALL_SPEED * sy]

PaddleX(side) ==
  IF side = "left" THEN PADDLE_MARGIN ELSE GAME_WIDTH - PADDLE_MARGIN - PADDLE_WIDTH

PaddleStartY == GAME_HEIGHT \div 2 - PADDLE_HEIGHT \div 2

createPlayer(playerId) ==
  [id |-> playerId, y |-> PaddleStartY, score |-> 0, connected |-> TRUE]

NoPlayer == [id |-> None, y |-> PaddleStartY, score |-> 0, connected |-> FALSE]

\* a GameRoom: players = the Player objects of room.players (keyed by side),
\* gs[side] = gameState.players[side] is non-null (it then is that object)
NoRoomObj ==
  [ball |-> createInitialGameState(1, 1),
   players |-> [s \in Sides |-> NoPlayer],
   gs |-> [s \in Sides |-> FALSE],
   gameActive |-> FALSE, winner |-> None, loop |-> "none"]

\* faulty variant: the requesting player is seated on the left
NewRoomSwapped(waitingPlayerId, playerId, sx, sy) ==
  [ball |-> createInitialGameState(sx, sy),
   players |-> [s \in Sides |->
                  IF s = "left" THEN createPlayer(playerId)
                                ELSE createPlayer(waitingPlayerId)],
   gs |-> [s \in Sides |-> TRUE],
   gameActive |-> FALSE, winner |-> None, loop |-> "none"]

NewRoom(waitingPlayerId, playerId, sx, sy) ==
  [ball |-> createInitialGameState(sx, sy),
   players |-> [s \in Sides |->
                  IF s = "left" THEN createPlayer(waitingPlayerId)
                                ELSE createPlayer(playerId)],
   gs |-> [s \in Sides |-> TRUE],
   gameActive |-> FALSE, winner |-> None, loop |-> "none"]

\* room.players.get(playerId): the side of the player object, "" if absent
SideOf(rm, p) ==
  IF rm.players["left"].id = p THEN "left"
  ELSE IF rm.players["right"].id = p THEN "right" ELSE ""

\* faulty variant: the existing assignment is not looked up
ExistingRoomNone(p) == None

\* the room addPlayer finds for a player already in a game (None otherwise)
ExistingRoom(p) ==
  IF playerToRoom[p] # None /\ playerToRoom[p] \in rooms
     /\ SideOf(room[playerToRoom[p]], p) # ""
  THEN playerToRoom[p] ELSE None

\* faulty variant: the self-match check is missing
SelfMatchOff(waitingPlayerId, playerId) == FALSE

\* the safety check of addPlayer: never match a player with themselves
SelfMatch(waitingPlayerId, playerId) == waitingPlayerId = playerId

bothPlayersConnected(r) ==
  /\ r \in rooms
  /\ \A s \in Sides : room[r].gs[s] /\ room[r].players[s].connected

\* what stateSnapshot carries: io emits room.gameState
Snapshot(rm) ==
  [ball |-> rm.ball,
   players |-> [s \in Sides |-> IF rm.gs[s] THEN rm.players[s] ELSE NoPlayer],
   gameActive |-> rm.gameActive, winner |-> rm.winner]

Ev(e, r, p, a) == [ev |-> e, room |-> r, sock |-> p, arg |-> a]
GameStateEv(r, rm) == Ev("gameState", r, None, Snapshot(rm))

NoHist == [n |-> 0, hit |-> FALSE, vx0 |-> 0]

\* the record of the handler that ran last: its socket, what it found (pre),
\* what it did (res), its argument or side (arg) and a number (n)
Ran(op, p, pre, res, arg, n) ==
  [op |-> op, p |-> p, pre |-> pre, res |-> res, arg |-> arg, n |-> n]

\* the 'gameEnd' events of a room so far: how many (0, 1, 2 = more than one)
\* and the winners they named
NoEnds == [n |-> 0, who |-> {}]

\* the record of the rooms' 'gameEnd' events after a handler emitted evs
Emitted(ends, evs) ==
  [r \in RoomIds |->
     LET E == {i \in 1..Len(evs) : evs[i].ev = "gameEnd" /\ evs[i].room = r} IN
     IF E = {} THEN ends[r]
     ELSE [n |-> Min(ends[r].n + Cardinality(E), 2),
           who |-> ends[r].who \cup {evs[i].arg : i \in E}]]

\* faulty variant: the head of the queue is read but not taken out
ShiftedPeek(q) == q

\* the queue after waitingPlayers.shift()
Shifted(q) == Tail(q)

\* addPlayer(playerId): the manager's maps afterwards and the result
\* (res "rejoin" = existing assignment returned, "newGame" = paired,
\* "null" = queued); sx, sy are the Math.random() signs of the new ball
addPlayer(p, sx, sy) ==
  LET ex == ExistingRoom(p)
      \* a mapping that leads to no player object is purged
      p2r == IF ex = None THEN [playerToRoom EXCEPT ![p] = None] ELSE playerToRoom
  IN
  IF ex # None THEN
    LET side == SideOf(room[ex], p) IN
    [rooms |-> rooms,
     room |-> [room EXCEPT ![ex].players[side].connected = TRUE,
                           ![ex].gs[side] = TRUE],
     created |-> created, waitingPlayers |-> waitingPlayers,
     playerToRoom |-> playerToRoom,
     res |-> "rejoin", roomId |-> ex, side |-> side, waitingPlayerId |-> None]
  ELSE IF Len(waitingPlayers) > 0 THEN
    LET waitingPlayerId == Head(waitingPlayers)
        rest == Shifted(waitingPlayers)
        roomId == created + 1
    IN
    IF SelfMatch(waitingPlayerId, p) THEN
      [rooms |-> rooms, room |-> room, created |-> created,
       waitingPlayers |-> Append(rest, p), playerToRoom |-> p2r,
       res |-> "null", roomId |-> None, side |-> "", waitingPlayerId |-> None]
    ELSE
      [rooms |-> rooms \cup {roomId},
       room |-> [room EXCEPT ![roomId] = NewRoom(waitingPlayerId, p, sx, sy)],
       created |-> roomId,
       waitingPlayers |-> rest,
       playerToRoom |-> [p2r EXCEPT ![waitingPlayerId] = roomId, ![p] = roomId],
       res |-> "newGame", roomId |-> roomId, side |-> "right",
       waitingPlayerId |-> waitingPlayerId]
  ELSE
    [rooms |-> rooms, room |-> room, created |-> created,
     waitingPlayers |-> Append(waitingPlayers, p), playerToRoom |-> p2r,
     res |-> "null", roomId |-> None, side |-> "", waitingPlayerId |-> None]

\* what the joinGame handler finds in the room addPlayer returned
JoinBothConnected(rm) ==
  \A s \in Sides : rm.gs[s] /\ rm.players[s].connected

\* the events of the joinGame handler
JoinEmits(p, a) ==
  IF a.res = "null" THEN <<Ev("connected", None, p, "waiting")>>
  ELSE LET rm == a.room[a.roomId] IN
    IF JoinBothConnected(rm) THEN
      <<Ev("playerJoined", None, rm.players["left"].id, "left"),
        Ev("playerJoined", None, rm.players["right"].id, "right"),
        GameStateEv(a.roomId, rm)>>
    ELSE
      <<Ev("playerJoined", None, p, a.side),
        Ev("gameState", None, p, Snapshot(rm)),
        Ev("connected", None, p, "opponent")>>

\* the start timers the joinGame handler schedules
JoinTimers(a) ==
  IF a.res # "null" /\ JoinBothConnected(a.room[a.roomId])
  THEN <<[room |-> a.roomId, rejoin |-> (a.res = "rejoin")]>>
  ELSE <<>>

JoinPre(p) ==
  IF ExistingRoom(p) # None THEN "inRoom"
  ELSE IF \E i \in 1..Len(waitingPlayers) : waitingPlayers[i] = p THEN "queued"
  ELSE "fresh"

\* socket.on('joinGame')
JoinGame(p) ==
  /\ sock[p] = "up"
  /\ \E sx \in Signs, sy \in Signs :
       LET a == addPlayer(p, sx, sy) IN
       /\ a.created <= MaxRooms
       /\ Len(graceQ) + Len(JoinTimers(a)) <= MaxGrace
       /\ rooms' = a.rooms
       /\ room' = a.room
       /\ created' = a.created
       /\ waitingPlayers' = a.waitingPlayers
       /\ playerToRoom' = a.playerToRoom
       /\ graceQ' = graceQ \o JoinTimers(a)
       /\ out' = JoinEmits(p, a)
       /\ last' = Ran("joinGame", p, JoinPre(p), a.res, a.side, 0)
       /\ hist' = IF a.res = "newGame"
                  THEN [hist EXCEPT ![a.roomId] =
                          [n |-> 0, hit |-> FALSE, vx0 |-> a.room[a.roomId].ball.vx]]
                  ELSE hist
  /\ UNCHANGED <<sock, intervals>>
  /\ gameEnds' = Emitted(gameEnds, out')

\* faulty variant: the entry is found but not spliced out
RemoveFirstKeeps(q, p) == q

\* waitingPlayers.splice(indexOf(p), 1): the first entry of p removed
RemoveFirst(q, p) ==
  LET i == CHOOSE k \in 1..Len(q) : q[k] = p /\ \A j \in 1..(k - 1) : q[j] # p
  IN SubSeq(q, 1, i - 1) \o SubSeq(q, i + 1, Len(q))

InQueue(q, p) == \E k \in 1..Len(q) : q[k] = p

\* clearInterval(room.gameLoopIntervalId) when the field is set: the field
\* keeps the (now dead) handle
ClearedLoop(loop) == IF loop = "live" THEN "stale" ELSE loop

\* faulty variant: the interval is never cleared
ClearedCountNever(loop, n) == n

\* the number of scheduled intervals of the room after that clearInterval
ClearedCount(loop, n) == IF loop = "live" THEN n - 1 ELSE n

\* faulty variant: the leaver is recorded as the winner
ForfeitWinnerSelf(rm, side) == rm.players[side].id

\* the winner removePlayer records when other players remain connected
ForfeitWinner(rm, side) == rm.players[Other(side)].id

\* faulty variant: the emptied room stays in the registry
RemoveLastKeepsRoom(r, rm, p) ==
  [rooms |-> rooms,
   room |-> [room EXCEPT ![r] = [rm EXCEPT !.loop = ClearedLoop(rm.loop)]],
   playerToRoom |-> [playerToRoom EXCEPT ![p] = None],
   intervals |-> [intervals EXCEPT ![r] = ClearedCount(rm.loop, @)]]

\* faulty variant: the last leaver's mapping is left behind
RemoveLastKeepsMapping(r, rm, p) ==
  [rooms |-> rooms \ {r},
   room |-> [room EXCEPT ![r] = [rm EXCEPT !.loop = ClearedLoop(rm.loop)]],
   playerToRoom |-> playerToRoom,
   intervals |-> [intervals EXCEPT ![r] = ClearedCount(rm.loop, @)]]

\* removePlayer's bookkeeping for a found player whose room empties
RemoveLast(r, rm, p) ==
  [rooms |-> rooms \ {r},
   room |-> [room EXCEPT ![r] = [rm EXCEPT !.loop = ClearedLoop(rm.loop)]],
   playerToRoom |-> [playerToRoom EXCEPT ![p] = None],
   intervals |-> [intervals EXCEPT ![r] = ClearedCount(rm.loop, @)]]

\* faulty variant: the forfeit names the winner but the game stays active
RemoveForfeitKeepsActive(r, rm, p, side) ==
  [rooms |-> rooms,
   room |-> [room EXCEPT ![r] = [rm EXCEPT !.winner = ForfeitWinner(rm, side),
                                            !.loop = ClearedLoop(rm.loop)]],
   playerToRoom |-> [playerToRoom EXCEPT ![p] = None],
   intervals |-> [intervals EXCEPT ![r] = ClearedCount(rm.loop, @)]]

\* faulty variant: a forfeit stops the game loops of all rooms
RemoveForfeitStopsAll(r, rm, p, side) ==
  [rooms |-> rooms,
   room |-> [room EXCEPT ![r] = [rm EXCEPT !.gameActive = FALSE,
                                            !.winner = ForfeitWinner(rm, side),
                                            !.loop = ClearedLoop(rm.loop)]],
   playerToRoom |-> [playerToRoom EXCEPT ![p] = None],
   intervals |-> [q \in RoomIds |-> 0]]

\* faulty variant: the leaver's mapping survives a forfeit
RemoveForfeitKeepsMapping(r, rm, p, side) ==
  [rooms |-> rooms,
   room |-> [room EXCEPT ![r] = [rm EXCEPT !.gameActive = FALSE,
                                            !.winner = ForfeitWinner(rm, side),
                                            !.loop = ClearedLoop(rm.loop)]],
   playerToRoom |-> playerToRoom,
   intervals |-> [intervals EXCEPT ![r] = ClearedCount(rm.loop, @)]]

\* removePlayer's bookkeeping when the opponent is still connected
RemoveForfeit(r, rm, p, side) ==
  [rooms |-> rooms,
   room |-> [room EXCEPT ![r] = [rm EXCEPT !.gameActive = FALSE,
                                            !.winner = ForfeitWinner(rm, side),
                                            !.loop = ClearedLoop(rm.loop)]],
   playerToRoom |-> [playerToRoom EXCEPT ![p] = None],
   intervals |-> [intervals EXCEPT ![r] = ClearedCount(rm.loop, @)]]

\* faulty variant: the players that have disconnected are counted as remaining
RemainingAll(rm, p) == {s \in Sides : rm.players[s].id # p}

\* remainingPlayers: the other players of the room that are connected
Remaining(rm, p) ==
  {s \in Sides : rm.players[s].id # p /\ rm.players[s].connected}

\* removePlayer(playerId): res "null" or "removed" (with roomId, side)
removePlayer(p) ==
  LET r == playerToRoom[p]
      keep == [rooms |-> rooms, room |-> room, playerToRoom |-> playerToRoom,
               intervals |-> intervals, waitingPlayers |-> waitingPlayers,
               res |-> "null", roomId |-> None, side |-> ""]
  IN
  IF InQueue(waitingPlayers, p) THEN
    [keep EXCEPT !.waitingPlayers = RemoveFirst(waitingPlayers, p)]
  ELSE IF r = None THEN keep
  ELSE IF r \notin rooms \/ SideOf(room[r], p) = "" THEN
    [keep EXCEPT !.playerToRoom = [playerToRoom EXCEPT ![p] = None]]
  ELSE
    LET side == SideOf(room[r], p)
        rm == [room[r] EXCEPT !.players[side].connected = FALSE,
                              !.gs[side] = FALSE]
        remaining == Remaining(rm, p)
        m == IF remaining = {} THEN RemoveLast(r, rm, p)
             ELSE RemoveForfeit(r, rm, p, side)
    IN [rooms |-> m.rooms, room |-> m.room, playerToRoom |-> m.playerToRoom,
        intervals |-> m.intervals, waitingPlayers |-> waitingPlayers,
        res |-> "removed", roomId |-> r, side |-> side]

\* faulty variant: the end of the game is announced before the snapshot
DisconnectEmitsEndFirst(p, m) ==
  IF m.res = "null" THEN <<>>
  ELSE <<Ev("playerDisconnected", m.roomId, p, m.side)>>
       \o (IF m.roomId \in m.rooms
           THEN <<Ev("gameEnd", m.roomId, None, m.room[m.roomId].winner),
                  GameStateEv(m.roomId, m.room[m.roomId])>>
           ELSE <<>>)

\* the events of the disconnect handler
DisconnectEmits(p, m) ==
  IF m.res = "null" THEN <<>>
  ELSE <<Ev("playerDisconnected", m.roomId, p, m.side)>>
       \o (IF m.roomId \in m.rooms
           THEN <<GameStateEv(m.roomId, m.room[m.roomId]),
                  Ev("gameEnd", m.roomId, None, m.room[m.roomId].winner)>>
           ELSE <<>>)

DisconnectPre(p) ==
  IF InQueue(waitingPlayers, p) THEN "queued"
  ELSE IF ExistingRoom(p) = None THEN "none"
  ELSE IF bothPlayersConnected(ExistingRoom(p)) THEN "both"
  ELSE "lastOne"

\* socket.on('disconnect')
Disconnect(p) ==
  /\ sock[p] = "up"
  /\ LET m == removePlayer(p) IN
     /\ sock' = [sock EXCEPT ![p] = "gone"]
     /\ rooms' = m.rooms
     /\ room' = m.room
     /\ playerToRoom' = m.playerToRoom
     /\ intervals' = m.intervals
     /\ waitingPlayers' = m.waitingPlayers
     /\ out' = DisconnectEmits(p, m)
     /\ last' = Ran("disconnect", p, DisconnectPre(p), m.res, m.side, 0)
  /\ UNCHANGED <<created, graceQ, hist>>
  /\ gameEnds' = Emitted(gameEnds, out')

\* faulty variant: the row is not clamped to the field
NewYUnclamped(y, direction) ==
  IF direction = "up" THEN y - PADDLE_SPEED ELSE y + PADDLE_SPEED

\* the paddle row after one move intent
NewY(y, direction) ==
  IF direction = "up" THEN Max(0, y - PADDLE_SPEED)
  ELSE Min(GAME_HEIGHT - PADDLE_HEIGHT, y + PADDLE_SPEED)

\* the room movePaddle acts on: None when the early returns fire
MoveRoom(p) ==
  LET r == playerToRoom[p] IN
  IF r = None \/ r \notin rooms THEN None
  ELSE IF SideOf(room[r], p) = "" THEN None
  ELSE IF ~room[r].players[SideOf(room[r], p)].connected THEN None
  ELSE r

\* faulty variant: the move also pushes the ball along with the paddle
movePaddleDragsBall(p, direction) ==
  LET r == MoveRoom(p) IN
  IF r = None THEN [room |-> room, roomId |-> None, y |-> 0]
  ELSE LET side == SideOf(room[r], p) IN
    [room |-> [room EXCEPT ![r].players[side].y = NewY(@, direction),
                           ![r].gs[side] = TRUE,
                           ![r].ball.y = NewY(@, direction)],
     roomId |-> r, y |-> room[r].players[side].y]

\* movePaddle(playerId, direction): the rooms afterwards, the result and
\* the row the paddle was on
movePaddle(p, direction) ==
  LET r == MoveRoom(p) IN
  IF r = None THEN [room |-> room, roomId |-> None, y |-> 0]
  ELSE LET side == SideOf(room[r], p) IN
    [room |-> [room EXCEPT ![r].players[side].y = NewY(@, direction),
                           ![r].gs[side] = TRUE],
     roomId |-> r, y |-> room[r].players[side].y]

\* faulty variant: a snapshot is emitted whatever movePaddle returned
MoveEmitsAlways(m) ==
  IF m.roomId # None /\ m.roomId \in rooms
  THEN <<GameStateEv(m.roomId, m.room[m.roomId])>>
  ELSE <<Ev("gameState", None, None, "")>>

\* the events of the paddleMove handler
MoveEmits(m) ==
  IF m.roomId # None /\ m.roomId \in rooms
  THEN <<GameStateEv(m.roomId, m.room[m.roomId])>> ELSE <<>>

\* socket.on('paddleMove')
PaddleMove(p, direction) ==
  /\ sock[p] = "up"
  /\ LET m == movePaddle(p, direction) IN
     /\ room' = m.room
     /\ out' = MoveEmits(m)
     /\ last' = Ran("paddleMove", p,
                     IF playerToRoom[p] = None THEN "none" ELSE "inRoom",
                     IF m.roomId = None THEN "null" ELSE "moved",
                     direction, m.y)
  /\ UNCHANGED <<sock, rooms, created, waitingPlayers, playerToRoom, graceQ,
                 intervals, hist>>
  /\ gameEnds' = Emitted(gameEnds, out')

\* resetBall: back to the centre, both velocity signs drawn afresh; the
\* half-speed branch needs |newVy| < 0.1 and |newVy| is BALL_SPEED
ResetVy(sy) ==
  IF 10 * Abs(BALL_SPEED * sy) < 1 THEN (BALL_SPEED * sy) \div 2
  ELSE BALL_SPEED * sy

resetBall(sx, sy) ==
  [x |-> GAME_WIDTH \div 2, y |-> GAME_HEIGHT \div 2,
   vx |-> BALL_SPEED * sx, vy |-> ResetVy(sy)]

\* startGame's guard: the room exists with both slots present and connected
CanStart(r) ==
  /\ r \in rooms
  /\ room[r].gs["left"] /\ room[r].gs["right"]
  /\ room[r].players["left"].connected /\ room[r].players["right"].connected

\* faulty variant: the scores of the previous game are kept
startGameKeepsScores(rm, sx, sy) ==
  [rm EXCEPT !.gameActive = TRUE,
             !.winner = None,
             !.ball = resetBall(sx, sy)]

\* faulty variant: the previous winner is not cleared
startGameKeepsWinner(rm, sx, sy) ==
  [rm EXCEPT !.gameActive = TRUE,
             !.players["left"].score = 0,
             !.players["right"].score = 0,
             !.ball = resetBall(sx, sy)]

\* startGame(roomId) on a room that passes the guard
startGame(rm, sx, sy) ==
  [rm EXCEPT !.gameActive = TRUE,
             !.winner = None,
             !.players["left"].score = 0,
             !.players["right"].score = 0,
             !.ball = resetBall(sx, sy)]

\* faulty variant: a new interval is set next to the previous one
LoopRestartKeepsOld(loop, n) == n + 1

\* startGameLoop(roomId): the previous interval is cleared, a new one set
LoopRestartCount(loop, n) ==
  (IF loop = "none" THEN n ELSE ClearedCount(loop, n)) + 1

\* faulty variant: the timer starts the game without re-checking the players
TimerStartsUnchecked(r) == r \in rooms

\* the test of the setTimeout callback: the room is there, both players are
\* connected, and startGame accepts
TimerStarts(r) == bothPlayersConnected(r) /\ CanStart(r)

\* the setTimeout callback of the joinGame handler
StartTimer ==
  /\ Len(graceQ) > 0
  /\ LET t == Head(graceQ)
         r == t.room
     IN
     /\ graceQ' = Tail(graceQ)
     /\ IF TimerStarts(r)
        THEN \E sx \in Signs, sy \in Signs :
               LET rm == startGame(room[r], sx, sy) IN
               /\ room' = [room EXCEPT ![r] = [rm EXCEPT !.loop = "live"]]
               /\ intervals' = [intervals EXCEPT
                                  ![r] = LoopRestartCount(room[r].loop, @)]
               /\ out' = <<Ev("gameStart", r, None, ""), GameStateEv(r, rm)>>
               /\ hist' = [hist EXCEPT
                             ![r] = [n |-> 0, hit |-> FALSE, vx0 |-> rm.ball.vx]]
               /\ last' = Ran("startTimer", None,
                                IF t.rejoin THEN "rejoin" ELSE "pair",
                                "started", "", 0)
        ELSE /\ out' = <<>>
             /\ last' = Ran("startTimer", None,
                              IF t.rejoin THEN "rejoin" ELSE "pair",
                              "skipped", "", 0)
             /\ UNCHANGED <<room, intervals, hist>>
  /\ UNCHANGED <<sock, rooms, created, waitingPlayers, playerToRoom>>
  /\ gameEnds' = Emitted(gameEnds, out')

\* ---------------------------------------------------------------- physics
MoveBall(b) == [b EXCEPT !.x = b.x + b.vx, !.y = b.y + b.vy]

\* faulty variant: vy is inverted but y is not clamped into the field
WallBounceNoClamp(b) ==
  IF b.y <= 0 \/ b.y >= GAME_HEIGHT - BALL_SIZE
  THEN [b EXCEPT !.vy = -b.vy] ELSE b

WallBounce(b) ==
  IF b.y <= 0 \/ b.y >= GAME_HEIGHT - BALL_SIZE
  THEN [b EXCEPT !.vy = -b.vy,
                 !.y = Max(0, Min(GAME_HEIGHT - BALL_SIZE, b.y))]
  ELSE b

LeftHit(b, rm) ==
  /\ rm.gs["left"]
  /\ b.vx < 0
  /\ b.x <= PaddleX("left") + PADDLE_WIDTH
  /\ b.x + BALL_SIZE >= PaddleX("left")
  /\ b.y + BALL_SIZE >= rm.players["left"].y
  /\ b.y <= rm.players["left"].y + PADDLE_HEIGHT

RightHit(b, rm) ==
  /\ rm.gs["right"]
  /\ b.vx > 0
  /\ b.x + BALL_SIZE >= PaddleX("right")
  /\ b.x <= PaddleX("right") + PADDLE_WIDTH
  /\ b.y + BALL_SIZE >= rm.players["right"].y
  /\ b.y <= rm.players["right"].y + PADDLE_HEIGHT

LeftBounce(b, rm) ==
  IF LeftHit(b, rm)
  THEN [b EXCEPT !.vx = -b.vx, !.x = PaddleX("left") + PADDLE_WIDTH] ELSE b

\* faulty variant: vx is inverted but the ball is left inside the paddle
RightBounceNoSnap(b, rm) ==
  IF RightHit(b, rm) THEN [b EXCEPT !.vx = -b.vx] ELSE b

RightBounce(b, rm) ==
  IF RightHit(b, rm)
  THEN [b EXCEPT !.vx = -b.vx, !.x = PaddleX("right") - BALL_SIZE] ELSE b

\* the ball after integration, wall bounce and both paddle checks
Flight(rm) == RightBounce(LeftBounce(WallBounce(MoveBall(rm.ball)), rm), rm)

\* a paddle reflected the ball in this tick
PaddleHit(rm) ==
  LET b == WallBounce(MoveBall(rm.ball)) IN
  LeftHit(b, rm) \/ RightHit(LeftBounce(b, rm), rm)

\* faulty variant: the point is given once the whole ball has left the field
ScoringSideLate(b) ==
  IF b.x < -BALL_SIZE THEN "right"
  ELSE IF b.x > GAME_WIDTH + BALL_SIZE THEN "left" ELSE ""

\* faulty variant: the point is given as soon as the ball touches the
\* paddle column's outer edge
ScoringSideEarly(b) ==
  IF b.x < BALL_SIZE THEN "right"
  ELSE IF b.x > GAME_WIDTH - BALL_SIZE THEN "left" ELSE ""

\* the slot that is awarded the point for ball b ("" = no scoring branch)
ScoringSide(b) ==
  IF b.x < 0 THEN "right" ELSE IF b.x > GAME_WIDTH THEN "left" ELSE ""

\* faulty variant: the threshold is compared with >
WinsLate(score) == score > WIN_SCORE

\* the win test after a point
Wins(score) == score >= WIN_SCORE

\* faulty variant: the winner is recorded but the game is left active
AwardKeepsActive(rm, side, sx, sy) ==
  IF ~rm.gs[side] THEN rm
  ELSE LET sc == rm.players[side].score + 1
           r1 == [rm EXCEPT !.players[side].score = sc,
                            !.ball = resetBall(sx, sy)]
       IN IF Wins(sc) THEN [r1 EXCEPT !.winner = rm.players[side].id] ELSE r1

\* faulty variant: the point goes to the slot on the side the ball left by
AwardOther(rm, side, sx, sy) ==
  IF ~rm.gs[Other(side)] THEN rm
  ELSE LET sc == rm.players[Other(side)].score + 1
           r1 == [rm EXCEPT !.players[Other(side)].score = sc,
                            !.ball = resetBall(sx, sy)]
       IN IF Wins(sc)
          THEN [r1 EXCEPT !.winner = rm.players[Other(side)].id,
                          !.gameActive = FALSE]
          ELSE r1

\* the scoring branch for the slot on `side`: nothing happens to an empty slot
Award(rm, side, sx, sy) ==
  IF ~rm.gs[side] THEN rm
  ELSE LET sc == rm.players[side].score + 1
           r1 == [rm EXCEPT !.players[side].score = sc,
                            !.ball = resetBall(sx, sy)]
       IN IF Wins(sc)
          THEN [r1 EXCEPT !.winner = rm.players[side].id, !.gameActive = FALSE]
          ELSE r1

\* updateBall(roomId) on the room object; sx, sy are resetBall's random signs
updateBall(rm, sx, sy) ==
  IF ~rm.gameActive THEN rm
  ELSE LET r1 == [rm EXCEPT !.ball = Flight(rm)]
           side == ScoringSide(r1.ball)
       IN IF side = "" THEN r1 ELSE Award(r1, side, sx, sy)

\* updateBall's return value
Scored(rm) == rm.gameActive /\ ScoringSide(Flight(rm)) # ""

\* the flight record after a tick of rm that gave rm2
NextHist(h, rm, rm2) ==
  IF Scored(rm) /\ rm.gs[ScoringSide(Flight(rm))]
  THEN [n |-> 0, hit |-> FALSE, vx0 |-> rm2.ball.vx]
  ELSE IF PaddleHit(rm) THEN [n |-> 0, hit |-> TRUE, vx0 |-> rm2.ball.vx]
  ELSE [h EXCEPT !.n = h.n + 1]

\* the setInterval callback of startGameLoop(r)
Tick(r) ==
  /\ intervals[r] > 0
  /\ LET rm == room[r] IN
     IF r \notin rooms \/ ~rm.gameActive
     THEN /\ room' = [room EXCEPT ![r].loop = "none"]
          /\ intervals' = [intervals EXCEPT ![r] = ClearedCount(rm.loop, @)]
          /\ out' = IF r \in rooms /\ rm.winner # None
                    THEN <<Ev("gameEnd", r, None, rm.winner)>> ELSE <<>>
          /\ last' = Ran("tick", None, "idle", "", "", 0)
          /\ hist' = hist
     ELSE \E sx \in Signs, sy \in Signs :
          LET rm2 == updateBall(rm, sx, sy) IN
          /\ IF rm2.winner # None
             THEN /\ room' = [room EXCEPT ![r] = [rm2 EXCEPT !.loop = "none"]]
                  /\ intervals' = [intervals EXCEPT
                                     ![r] = ClearedCount(rm2.loop, @)]
                  /\ out' = <<GameStateEv(r, rm2),
                              Ev("gameEnd", r, None, rm2.winner)>>
             ELSE /\ room' = [room EXCEPT ![r] = rm2]
                  /\ intervals' = intervals
                  /\ out' = <<GameStateEv(r, rm2)>>
          /\ last' = IF Scored(rm)
                      THEN Ran("tick", None,
                               IF hist[r].hit THEN "hit" ELSE "free",
                               "scored", ScoringSide(Flight(rm)), hist[r].n + 1)
                      ELSE Ran("tick", None, "active", "", "", 0)
          /\ hist' = [hist EXCEPT ![r] = NextHist(@, rm, rm2)]
  /\ UNCHANGED <<sock, rooms, created, waitingPlayers, playerToRoom, graceQ>>
  /\ gameEnds' = Emitted(gameEnds, out')

Init ==
  /\ sock = [p \in Ids |-> "new"]
  /\ rooms = {}
  /\ room = [r \in RoomIds |-> NoRoomObj]
  /\ created = 0
  /\ waitingPlayers = <<>>
  /\ playerToRoom = [p \in Ids |-> None]
  /\ graceQ = <<>>
  /\ intervals = [r \in RoomIds |-> 0]
  /\ out = <<>>
  /\ last = Ran("init", None, "", "", "", 0)
  /\ hist = [r \in RoomIds |-> NoHist]
  /\ gameEnds = [r \in RoomIds |-> NoEnds]

\* io.on('connection'): the socket gets its handlers and a welcome; socket
\* ids are fresh names, so they are taken in increasing order
Connect(p) ==
  /\ sock[p] = "new"
  /\ \A q \in Ids : q < p => sock[q] # "new"
  /\ sock' = [sock EXCEPT ![p] = "up"]
  /\ out' = <<Ev("connected", None, p, "welcome")>>
  /\ last' = Ran("connection", p, "", "", "", 0)
  /\ UNCHANGED <<rooms, room, created, waitingPlayers, playerToRoom, graceQ,
                 intervals, hist>>
  /\ gameEnds' = Emitted(gameEnds, out')

\* Spec keeps each paddle between its start row and MaxMoveSteps moves above
MoveInWindow(p, direction) ==
  LET r == MoveRoom(p) IN
  r # None =>
    LET y == NewY(room[r].players[SideOf(room[r], p)].y, direction) IN
    y <= PaddleStartY /\ PaddleStartY - y <= MaxMoveSteps * PADDLE_SPEED

Next ==
  \/ \E p \in Players : Connect(p)
  \/ \E p \in Ids : JoinGame(p)
  \/ \E p \in Ids : Disconnect(p)
  \/ \E p \in Ids, d \in Dirs : MoveInWindow(p, d) /\ PaddleMove(p, d)
  \/ StartTimer
  \/ \E r \in RoomIds : hist[r].n < MaxTickSteps /\ Tick(r)

Spec == Init /\ [][Next]_vars

\* ------------------------------------------------- paddle specification
\* every sequence of move intents of the two sockets of the first room
Pair == {1, 2}

NextPaddle ==
  \/ \E p \in Pair : Connect(p)
  \/ \E p \in Pair : JoinGame(p)
  \/ \E p \in Pair, d \in Dirs : PaddleMove(p, d)

SpecPaddle == Init /\ [][NextPaddle]_vars

\* -------------------------------------------------- match specification
\* whole matches: sockets 1 and 2 have been paired into room 1 and, during
\* the start delay, have moved their paddles to rows of PaddleStarts, at
\* least one of them to the top row
PaddleStarts == {0, PaddleStartY}

InitMatch ==
  \E sx \in Signs, sy \in Signs, yl \in PaddleStarts, yr \in PaddleStarts :
    LET rm == [NewRoom(1, 2, sx, sy) EXCEPT !.players["left"].y = yl,
                                            !.players["right"].y = yr]
    IN
    /\ yl = 0 \/ yr = 0
    /\ sock = [p \in Ids |-> IF p \in Pair THEN "up" ELSE "new"]
    /\ rooms = {1}
    /\ room = [r \in RoomIds |-> IF r = 1 THEN rm ELSE NoRoomObj]
    /\ created = 1
    /\ waitingPlayers = <<>>
    /\ playerToRoom = [p \in Ids |-> IF p \in Pair THEN 1 ELSE None]
    /\ graceQ = <<[room |-> 1, rejoin |-> FALSE]>>
    /\ intervals = [r \in RoomIds |-> 0]
    /\ out = <<GameStateEv(1, rm)>>
    /\ last = Ran("paddleMove", 1, "inRoom", "moved",
                   IF yl = 0 THEN "up" ELSE "down",
                   IF yl = 0 THEN yl + PADDLE_SPEED ELSE yl - PADDLE_SPEED)
    /\ hist = [r \in RoomIds |->
                 IF r = 1 THEN [n |-> 0, hit |-> FALSE, vx0 |-> rm.ball.vx]
                 ELSE NoHist]
    /\ gameEnds = [r \in RoomIds |-> NoEnds]

NextMatch ==
  \/ StartTimer
  \/ \E r \in RoomIds : Tick(r)
  \/ \E p \in Ids : Disconnect(p)

SpecMatch == InitMatch /\ [][NextMatch]_vars

\* ------------------------------------------------ rematch specification
\* whole matches as in SpecMatch, and joinGame from a player of the pair
\* whose game is over (a winner is recorded in the room the player is in)
GameOver(p) ==
  playerToRoom[p] # None /\ room[playerToRoom[p]].winner # None

NextRematch ==
  \/ StartTimer
  \/ \E r \in RoomIds : Tick(r)
  \/ \E p \in Ids : Disconnect(p)
  \/ \E p \in Pair : GameOver(p) /\ JoinGame(p)

SpecRematch == InitMatch /\ [][NextRematch]_vars

\* --------------------------------------------------- pace specification
\* a match in which the two players send move intents at any time, before
\* the start and between the first ticks of every flight
NextPace ==
  \/ StartTimer
  \/ \E r \in RoomIds : hist[r].n < MaxTickSteps /\ Tick(r)
  \/ \E p \in Pair, d \in Dirs : PaddleMove(p, d)

SpecPace == InitMatch /\ [][NextPace]_vars

\* ----------------------------------------------- shutdown specification
\* clearAllGames(): the game loop of every registered room is cleared, then
\* the registry, the queue and the player mapping are emptied
ClearAllGames ==
  /\ room' = [r \in RoomIds |->
                IF r \in rooms THEN [room[r] EXCEPT !.loop = ClearedLoop(@)]
                ELSE room[r]]
  /\ intervals' = [r \in RoomIds |->
                     IF r \in rooms THEN ClearedCount(room[r].loop, intervals[r])
                     ELSE intervals[r]]
  /\ rooms' = {}
  /\ waitingPlayers' = <<>>
  /\ playerToRoom' = [p \in Ids |-> None]
  /\ out' = <<>>
  /\ last' = Ran("clearAllGames", None, "", "", "", 0)
  /\ UNCHANGED <<sock, created, graceQ, hist>>
  /\ gameEnds' = Emitted(gameEnds, out')

\* whole matches as in SpecMatch, with clearAllGames called at any moment
NextShutdown ==
  \/ StartTimer
  \/ \E r \in RoomIds : Tick(r)
  \/ \E p \in Ids : Disconnect(p)
  \/ ClearAllGames

SpecShutdown == InitMatch /\ [][NextShutdown]_vars

\* ------------------------------------------------ re-add specification
\* addPlayer(p) called again for an id whose socket has gone: the manager
\* seen through its own interface, whatever the caller; SpecReAdd follows
\* the joins, leaves and start timers of sockets 1 and 2, and leaves the
\* play itself out
AddAgain(p) ==
  /\ sock[p] = "gone"
  /\ \E sx \in Signs, sy \in Signs :
       LET a == addPlayer(p, sx, sy) IN
       /\ a.created <= MaxRooms
       /\ rooms' = a.rooms
       /\ room' = a.room
       /\ created' = a.created
       /\ waitingPlayers' = a.waitingPlayers
       /\ playerToRoom' = a.playerToRoom
       /\ out' = <<>>
       /\ last' = Ran("addPlayer", p, JoinPre(p), a.res, a.side, 0)
       /\ hist' = IF a.res = "newGame"
                  THEN [hist EXCEPT ![a.roomId] =
                          [n |-> 0, hit |-> FALSE, vx0 |-> a.room[a.roomId].ball.vx]]
                  ELSE hist
  /\ UNCHANGED <<sock, graceQ, intervals>>
  /\ gameEnds' = Emitted(gameEnds, out')

NextReAdd ==
  \/ \E p \in Pair : Connect(p)
  \/ \E p \in Pair : JoinGame(p)
  \/ \E p \in Pair : Disconnect(p)
  \/ \E p \in Pair : AddAgain(p)
  \/ StartTimer

SpecReAdd == Init /\ [][NextReAdd]_vars

\* ---------------------------------------------- two-room specification
\* two sessions side by side: sockets 1..4 have connected and joined in
\* turn, 1 and 2 were paired into room 1 and 3 and 4 into room 2, and both
\* start timers are pending
SecondPair == {3, 4}

\* the sockets in the left slots of the two rooms: SpecTwo moves the left
\* paddle of each room
LeftPair == {1, 3}

InitTwo ==
  \E sx \in Signs, sy \in Signs, tx \in Signs, ty \in Signs :
    LET r1 == NewRoom(1, 2, sx, sy)
        r2 == NewRoom(3, 4, tx, ty)
    IN
    /\ sock = [p \in Ids |-> IF p \in Pair \cup SecondPair THEN "up" ELSE "new"]
    /\ rooms = {1, 2}
    /\ room = [r \in RoomIds |-> IF r = 1 THEN r1 ELSE IF r = 2 THEN r2
                                   ELSE NoRoomObj]
    /\ created = 2
    /\ waitingPlayers = <<>>
    /\ playerToRoom = [p \in Ids |-> IF p \in Pair THEN 1
                                      ELSE IF p \in SecondPair THEN 2 ELSE None]
    /\ graceQ = <<[room |-> 1, rejoin |-> FALSE], [room |-> 2, rejoin |-> FALSE]>>
    /\ intervals = [r \in RoomIds |-> 0]
    /\ out = <<Ev("playerJoined", None, 3, "left"),
               Ev("playerJoined", None, 4, "right"),
               GameStateEv(2, r2)>>
    /\ last = Ran("joinGame", 4, "fresh", "newGame", "right", 0)
    /\ hist = [r \in RoomIds |->
                 IF r = 1 THEN [n |-> 0, hit |-> FALSE, vx0 |-> r1.ball.vx]
                 ELSE IF r = 2 THEN [n |-> 0, hit |-> FALSE, vx0 |-> r2.ball.vx]
                 ELSE NoHist]
    /\ gameEnds = [r \in RoomIds |-> NoEnds]

NextTwo ==
  \/ StartTimer
  \/ \E r \in RoomIds : hist[r].n < MaxTickSteps /\ Tick(r)
  \/ \E p \in Ids : Disconnect(p)
  \/ \E p \in LeftPair, d \in Dirs : MoveInWindow(p, d) /\ PaddleMove(p, d)

SpecTwo == InitTwo /\ [][NextTwo]_vars

\* ------------------------------------------------ removal specification
\* removePlayer(playerId) called for an id whose socket is not connected: an
\* id the manager never saw, or one it has removed before
RemoveAgain(p) ==
  /\ sock[p] # "up"
  /\ LET m == removePlayer(p) IN
     /\ rooms' = m.rooms
     /\ room' = m.room
     /\ playerToRoom' = m.playerToRoom
     /\ intervals' = m.intervals
     /\ waitingPlayers' = m.waitingPlayers
     /\ out' = <<>>
     /\ last' = Ran("removePlayer", p, DisconnectPre(p), m.res, m.side, 0)
  /\ UNCHANGED <<sock, created, graceQ, hist>>
  /\ gameEnds' = Emitted(gameEnds, out')

NextRemove ==
  \/ \E p \in Players : Connect(p)
  \/ \E p \in Ids : JoinGame(p)
  \/ \E p \in Ids : Disconnect(p)
  \/ \E p \in Ids : RemoveAgain(p)
  \/ \E p \in Ids, d \in Dirs : MoveInWindow(p, d) /\ PaddleMove(p, d)
  \/ StartTimer
  \/ \E r \in RoomIds : hist[r].n < MaxTickSteps /\ Tick(r)

SpecRemove == Init /\ [][NextRemove]_vars

\* ------------------------------------------------------------ properties
Created == 1..created
Slot(r, s) == room[r].players[s]
ConnectedMember(r, p) ==
  r \in rooms /\ \E s \in Sides : Slot(r, s).id = p /\ Slot(r, s).connected
Occurrences(q, p) == Cardinality({k \in 1..Len(q) : q[k] = p})
Centre(b) == b.x = GAME_WIDTH \div 2 /\ b.y = GAME_HEIGHT \div 2

\* the step is the handler `op` run for socket p
Handled(op, p) == last'.op = op /\ last'.p = p

\* C1: when B joins while A (a different id, not B) is the one waiting
\* player, exactly one room is created, with A in the left slot and B in
\* the right slot, both ids are mapped to it and the queue is empty.
C1_PairingStep ==
  \A a \in Ids, b \in Ids :
    (a # b /\ waitingPlayers = <<a>> /\ playerToRoom[b] = None
     /\ Handled("joinGame", b))
    => \E r \in RoomIds :
         /\ r \notin rooms
         /\ rooms' = rooms \cup {r}
         /\ room'[r].players["left"].id = a
         /\ room'[r].players["right"].id = b
         /\ room'[r].gs["left"] /\ room'[r].gs["right"]
         /\ playerToRoom'[a] = r /\ playerToRoom'[b] = r
         /\ waitingPlayers' = <<>>
         /\ \A q \in RoomIds \ {r} : room'[q] = room[q]

\* C1: every join by an unassigned id while one other id waits creates exactly
\* one room, waiting id on the left, joiner on the right, both mapped to it,
\* and leaves the queue empty.
C1_Pairing == [][C1_PairingStep]_vars

C1_Witness ==
  /\ last.op = "joinGame" /\ last.res = "newGame" /\ last.p = 2
  /\ rooms = {1} /\ created = 1
  /\ Slot(1, "left").id = 1 /\ Slot(1, "right").id = 2
  /\ waitingPlayers = <<>>

\* C2: the queue holds no id twice, no id is a connected member of two
\* registered rooms, and no queued id is a connected member of a room.
C2_NoDuplicates ==
  /\ \A p \in Ids : Occurrences(waitingPlayers, p) <= 1
  /\ \A p \in Ids : Cardinality({r \in rooms : ConnectedMember(r, p)}) <= 1
  /\ \A p \in Ids : InQueue(waitingPlayers, p)
                      => ~\E r \in rooms : ConnectedMember(r, p)

C2_Witness ==
  /\ last.op = "joinGame" /\ last.pre = "inRoom" /\ last.res = "rejoin"
  /\ ConnectedMember(playerToRoom[last.p], last.p)

\* C3: a point scored at the end of a flight that began at a ball reset and
\* met no paddle, with the ball leaving on the left, is scored by the 134th
\* tick of that flight and no other; that tick adds 1 to the right slot's
\* score and leaves the ball at (400,200) with |vy| >= 1.5.
C3_FreeFlightLeft(r) ==
  r \in rooms /\ room[r].gameActive /\ ~hist[r].hit
  /\ hist[r].vx0 = -BALL_SPEED

C3_State ==
  /\ \A r \in RoomIds :
       C3_FreeFlightLeft(r) =>
         /\ hist[r].n <= 133
         /\ room[r].ball.x = GAME_WIDTH \div 2 - BALL_SPEED * hist[r].n
  /\ (last.op = "tick" /\ last.res = "scored" /\ last.pre = "free"
      /\ last.arg = "right")
     => /\ last.n = 134
        /\ \A r \in rooms : Centre(room[r].ball) /\ 2 * Abs(room[r].ball.vy) >= 3

C3_Step ==
  \A r \in RoomIds :
    (C3_FreeFlightLeft(r) /\ hist[r].n = 133 /\ Handled("tick", None)
     /\ hist'[r] # hist[r])
    => /\ room'[r].players["right"].score = room[r].players["right"].score + 1
       /\ room'[r].players["left"].score = room[r].players["left"].score
       /\ last'.res = "scored" /\ last'.arg = "right"

\* C3: a flight from the centre with vx = -3 that no paddle intercepts ends on
\* its 134th tick and not before; that tick adds one to the right score and
\* puts the ball back at (400, 200) with |vy| >= 1.5.
C3_FreeFlight == []C3_State /\ [][C3_Step]_vars

C3_Witness ==
  /\ last.op = "tick" /\ last.res = "scored" /\ last.pre = "free"
  /\ last.arg = "right" /\ last.n = 134
  /\ Slot(1, "right").score = 1 /\ Slot(1, "left").score = 0
  /\ Centre(room[1].ball)

\* C4 as stated: a slot's id is the winner if and only if its score is >= 5.
C4_WinnerIffScore ==
  \A r \in rooms, s \in Sides :
    (room[r].winner = Slot(r, s).id) <=> (Slot(r, s).score >= WIN_SCORE)

\* C4 amended: a slot's id is the winner only if its score is >= 5 or the
\* other slot has disconnected; a connected slot whose score is >= 5 is the
\* winner of a room that is no longer active.
C4_WinnerByScoreOrForfeit ==
  \A r \in rooms, s \in Sides :
    /\ room[r].winner = Slot(r, s).id
         => Slot(r, s).score >= WIN_SCORE \/ ~Slot(r, Other(s)).connected
    /\ (Slot(r, s).score >= WIN_SCORE /\ Slot(r, s).connected)
         => room[r].winner = Slot(r, s).id /\ ~room[r].gameActive

C4_Witness ==
  \E s \in Sides :
    /\ 1 \in rooms /\ Slot(1, s).score = WIN_SCORE
    /\ room[1].winner = Slot(1, s).id
    /\ Slot(1, "left").connected /\ Slot(1, "right").connected
    /\ last.op = "tick" /\ last.res = "scored"

\* C5: a registered room with a disconnected slot is not active and its
\* winner is the other slot's id; from then on no step changes its ball.
C5_Forfeited(r) ==
  r \in rooms /\ \E s \in Sides : ~Slot(r, s).connected

C5_State ==
  \A r \in rooms, s \in Sides :
    ~Slot(r, s).connected
      => ~room[r].gameActive /\ room[r].winner = Slot(r, Other(s)).id

C5_Step == \A r \in RoomIds : C5_Forfeited(r) => room'[r].ball = room[r].ball

\* C5: a room with one slot disconnected and the other connected is inactive,
\* its winner is the connected id, and no step changes its ball.
C5_Forfeit == []C5_State /\ [][C5_Step]_vars

C5_Witness ==
  /\ last.op = "disconnect" /\ last.pre = "both"
  /\ C5_Forfeited(1) /\ ~Centre(room[1].ball)
  /\ hist[1].n > 0

\* C6 as stated: a room that was destroyed never had a winner assigned.
C6_NoWinnerEver ==
  \A r \in Created : r \notin rooms => room[r].winner = None

\* C6 amended: once both slots of a room have disconnected the room is out
\* of the registry and no player mapping points to it; the disconnect that
\* empties the room changes no winner and emits no snapshot and no
\* matchEnded (the earlier disconnect made the then-remaining player the
\* forfeit winner).
C6_State ==
  \A r \in Created :
    (\A s \in Sides : ~Slot(r, s).connected)
      => r \notin rooms /\ \A p \in Ids : playerToRoom[p] # r

C6_Step ==
  \A r \in RoomIds :
    (r \in rooms /\ r \notin rooms')
      => /\ room'[r].winner = room[r].winner
         /\ last'.op = "disconnect"
         /\ \A i \in 1..Len(out') : out'[i].ev \notin {"gameState", "gameEnd"}

\* C6 amended: after both slots disconnect the room is unregistered and no id
\* maps to it; the disconnect that empties it assigns no winner and emits no
\* snapshot and no gameEnd.
C6_Destroyed == []C6_State /\ [][C6_Step]_vars

C6_Witness ==
  /\ last.op = "disconnect" /\ last.pre = "lastOne"
  /\ created = 1 /\ rooms = {}
  /\ \A s \in Sides : ~Slot(1, s).connected

\* C7: every paddle row is within [0, 320]; a move up from row 0 and a move
\* down from row 320 leave the paddle where it was.
C7_PaddleInField ==
  /\ \A r \in Created, s \in Sides :
       Slot(r, s).y >= 0 /\ Slot(r, s).y <= GAME_HEIGHT - PADDLE_HEIGHT
  /\ (last.op = "paddleMove" /\ last.res = "moved")
       => \A r \in rooms, s \in Sides :
            Slot(r, s).id = last.p =>
              /\ (last.arg = "up" /\ last.n = 0) => Slot(r, s).y = 0
              /\ (last.arg = "down" /\ last.n = GAME_HEIGHT - PADDLE_HEIGHT)
                   => Slot(r, s).y = GAME_HEIGHT - PADDLE_HEIGHT

C7_Witness ==
  /\ last.op = "paddleMove" /\ last.res = "moved"
  /\ last.arg = "up" /\ last.n = 0
  /\ \E s \in Sides : Slot(1, s).id = last.p /\ Slot(1, s).y = 0
  /\ \E s \in Sides : Slot(1, s).y = GAME_HEIGHT - PADDLE_HEIGHT

\* C8: no room has one id in both slots; a join by the id at the head of the
\* queue creates no room, is answered as queued and leaves that id in the
\* queue exactly once.
C8_State ==
  \A r \in Created : Slot(r, "left").id # Slot(r, "right").id

C8_Step ==
  \A p \in Ids :
    (Len(waitingPlayers) > 0 /\ Head(waitingPlayers) = p
     /\ Handled("joinGame", p))
    => /\ rooms' = rooms /\ room' = room /\ created' = created
       /\ last'.res = "null"
       /\ Occurrences(waitingPlayers', p) = 1

\* C8: no room holds one id in both slots; a join by the id at the head of the
\* queue creates no room, reports queued, and leaves the id queued once.
C8_NoSelfPairing == []C8_State /\ [][C8_Step]_vars

C8_Witness ==
  /\ last.op = "joinGame" /\ last.pre = "queued" /\ last.res = "null"
  /\ waitingPlayers = <<last.p>>

\* C9: a move intent from an id with no room mapping, or whose slot is
\* disconnected, changes nothing of the manager, the timers and the rooms
\* and emits nothing.
C9_NoLiveSlot(p) ==
  playerToRoom[p] = None \/ ~ConnectedMember(playerToRoom[p], p)

C9_Step ==
  \A p \in Ids :
    (C9_NoLiveSlot(p) /\ Handled("paddleMove", p))
    => /\ UNCHANGED <<rooms, room, created, waitingPlayers, playerToRoom,
                      graceQ, intervals, sock>>
       /\ out' = <<>>

\* C9: a paddleMove from an id without a live slot changes no state and emits
\* nothing.
C9_MoveDropped == [][C9_Step]_vars

C9_Witness ==
  /\ last.op = "paddleMove" /\ last.res = "null" /\ last.pre = "none"
  /\ sock[last.p] = "up" /\ out = <<>>

\* C10 as stated: neither a join by a connected member of a room nor the
\* start timer such a join schedules changes the room's scores, ball,
\* active flag or winner.
C10_Frame(r) ==
  /\ room'[r].ball = room[r].ball
  /\ room'[r].gameActive = room[r].gameActive
  /\ room'[r].winner = room[r].winner
  /\ \A s \in Sides : room'[r].players[s].score = room[r].players[s].score

C10_Step ==
  /\ \A p \in Ids :
       (ExistingRoom(p) # None /\ Handled("joinGame", p))
         => C10_Frame(ExistingRoom(p))
  /\ (last'.op = "startTimer" /\ last'.pre = "rejoin" /\ Len(graceQ) > 0)
       => C10_Frame(Head(graceQ).room)

\* C10 as stated: a join by a connected member of a started room, and the
\* start timer that join schedules, leave the room's ball, scores, winner and
\* active flag as they were.
C10_RejoinNoOp == [][C10_Step]_vars

\* the room is registered, not active, and has a winner recorded
Ended(r) == r \in rooms /\ ~room[r].gameActive /\ room[r].winner # None

C11_Step ==
  \A r \in RoomIds :
    (Ended(r) /\ r \in rooms')
    => /\ ~room'[r].gameActive
       /\ room'[r].winner # None
       /\ \A s \in Sides : room'[r].players[s].score = room[r].players[s].score

\* C11 as stated: once a room is inactive with a winner recorded, no step
\* makes it active again, clears its winner or changes its scores.
C11_EndedTerminal == [][C11_Step]_vars

\* the slot of r whose score this step brought to the win threshold
C12_WinningSide(r) ==
  {s \in Sides : /\ room[r].players[s].score = WIN_SCORE - 1
                 /\ room'[r].players[s].score = WIN_SCORE}

C12_State == \A r \in RoomIds : room[r].winner # None => intervals[r] = 0

C12_Step ==
  \A r \in RoomIds :
    /\ (last'.op = "tick" /\ last'.res = "scored")
       => \A s \in C12_WinningSide(r) :
            /\ room'[r].winner = room'[r].players[s].id
            /\ ~room'[r].gameActive
            /\ intervals'[r] = 0
    /\ (last'.op = "tick" /\ room[r].winner # None)
       => /\ room'[r].ball = room[r].ball
          /\ \A s \in Sides :
               room'[r].players[s].score = room[r].players[s].score

\* C12: the tick that brings a score to 5 leaves the room with that slot's id
\* as winner and inactive, with no game loop scheduled; no tick changes the
\* ball or the scores of a room that has a winner.
C12_WinStopsLoop == []C12_State /\ [][C12_Step]_vars

C12_Witness ==
  /\ last.op = "tick" /\ last.res = "scored"
  /\ Slot(1, "left").score = WIN_SCORE
  /\ room[1].winner = Slot(1, "left").id
  /\ ~room[1].gameActive /\ intervals[1] = 0
  /\ Centre(room[1].ball)

\* C14 as stated: at most one 'gameEnd' is emitted for a room, and all of
\* them name the same winner.
C14_EndedOnce ==
  \A r \in RoomIds :
    gameEnds[r].n <= 1 /\ Cardinality(gameEnds[r].who) <= 1

\* both sockets seated in room r are connected
C13_BothUp(r) == r \in rooms /\ \A s \in Sides : sock[Slot(r, s).id] = "up"

\* this step is the firing of a start timer of room r
C13_TimerOf(r) ==
  last'.op = "startTimer" /\ Len(graceQ) > 0 /\ Head(graceQ).room = r

C13_Step ==
  \A r \in RoomIds :
    /\ (~room[r].gameActive /\ room'[r].gameActive)
       => C13_TimerOf(r) /\ C13_BothUp(r) /\ last'.res = "started"
    /\ (C13_TimerOf(r) /\ ~C13_BothUp(r))
       => /\ room' = room /\ intervals' = intervals
          /\ \A i \in 1..Len(out') : out'[i].ev # "gameStart"

\* C13: a room becomes active only in the firing of one of its start timers
\* with both of its sockets connected at that moment; a start timer that
\* fires after a player of its room has disconnected changes no room, starts
\* no game loop and emits no 'gameStart'.
C13_StartNeedsBoth == [][C13_Step]_vars

C13_Witness ==
  /\ last.op = "startTimer" /\ last.res = "skipped"
  /\ 1 \in rooms /\ sock[Slot(1, "right").id] = "gone"
  /\ ~room[1].gameActive /\ intervals[1] = 0 /\ out = <<>>

C15_Step ==
  \A p \in Ids :
    (GameOver(p) /\ Handled("joinGame", p))
    => \/ InQueue(waitingPlayers', p)
       \/ /\ playerToRoom'[p] \in rooms' \ rooms
          /\ \E s \in Sides :
               /\ room'[playerToRoom'[p]].players[s].id = p
               /\ room'[playerToRoom'[p]].players[s].connected

\* C15 as stated: a join by a connected player whose game is over (a winner
\* is recorded in the player's room) leaves the player queued or seated in a
\* room created by that join.
C15_RejoinsMatchmaking == [][C15_Step]_vars

\* the queue, the registry, the player mapping, the rooms and their loops
C16_Manager == <<waitingPlayers, rooms, playerToRoom, room, intervals>>

C16_Step ==
  \A p \in Ids :
    /\ Handled("removePlayer", p) => C16_Manager' = C16_Manager
    /\ (Handled("disconnect", p) /\ ~InQueue(waitingPlayers, p)
        /\ playerToRoom[p] = None)
       => C16_Manager' = C16_Manager

\* C16: removePlayer of an id that was removed before, or that is neither
\* queued nor assigned, leaves the queue, the registry, the player mapping
\* and every room as they are.
C16_RemoveIdempotent == [][C16_Step]_vars

C16_Witness ==
  /\ last.op = "removePlayer" /\ last.p = 2 /\ sock[2] = "gone"
  /\ 1 \in rooms /\ Slot(1, "right").id = 2 /\ room[1].winner = 1

C17_Step ==
  \A p \in Ids :
    /\ (Handled("joinGame", p) /\ rooms' # rooms)
       => /\ Len(waitingPlayers) > 0
          /\ \E r \in rooms' \ rooms :
               /\ room'[r].players["left"].id = Head(waitingPlayers)
               /\ room'[r].players["right"].id = p
          /\ waitingPlayers' = Tail(waitingPlayers)
    /\ (Handled("joinGame", p) /\ ~InQueue(waitingPlayers, p)
        /\ InQueue(waitingPlayers', p))
       => waitingPlayers' = Append(waitingPlayers, p)

\* C17: a join that creates a room pairs the joiner with the id at the head
\* of the queue and leaves the rest of the queue in its order; a join that
\* queues a new id puts it at the end.
C17_Fifo == [][C17_Step]_vars

C17_Witness ==
  /\ last.op = "joinGame" /\ last.res = "newGame" /\ last.p = 2
  /\ created = 1 /\ rooms = {1}
  /\ Slot(1, "left").id = 1 /\ ~InQueue(waitingPlayers, 1)

\* C18: every playerToRoom entry names a registered room in which the player
\* is a connected member; every connected member of a registered room has
\* the entry of that room; a player whose socket has disconnected has no
\* entry, so no entry names a room that was deleted.
C18_IndexConsistent ==
  /\ \A p \in Ids :
       playerToRoom[p] # None => ConnectedMember(playerToRoom[p], p)
  /\ \A r \in rooms, s \in Sides :
       Slot(r, s).connected => playerToRoom[Slot(r, s).id] = r
  /\ \A p \in Ids : sock[p] = "gone" => playerToRoom[p] = None
  /\ \A r \in Created \ rooms, p \in Ids : playerToRoom[p] # r

C18_Witness ==
  /\ 1 \in rooms /\ sock[2] = "gone" /\ Slot(1, "right").id = 2
  /\ playerToRoom[2] = None /\ playerToRoom[1] = 1
  /\ last.op = "disconnect" /\ last.p = 2

\* the server has nothing scheduled: no start timer and no game loop
C19_Quiet == graceQ = <<>> /\ \A r \in RoomIds : intervals[r] = 0

\* C19 as stated: a forfeited room is deleted by the server after the
\* notification, without the remaining player disconnecting; so once the
\* server has nothing left scheduled, no registered room has a disconnected
\* slot.
C19_ForfeitedRoomGoes ==
  C19_Quiet => \A r \in rooms, s \in Sides : Slot(r, s).connected

C20_State == \A r \in RoomIds : room[r].winner # None => ~room[r].gameActive

\* the winner of r was set by the tick that brought its score to the threshold
C20_ByScore(r) ==
  /\ last'.op = "tick" /\ last'.res = "scored"
  /\ \E s \in Sides :
       /\ room'[r].winner = room'[r].players[s].id
       /\ room'[r].players[s].score = room[r].players[s].score + 1
       /\ room'[r].players[s].score >= WIN_SCORE

\* the winner of r was set by the disconnect of the other player of r
C20_ByForfeit(r) ==
  /\ last'.op = "disconnect" /\ last'.res = "removed"
  /\ \E s \in Sides :
       /\ room[r].players[s].id = last'.p
       /\ room[r].players[s].connected /\ ~room'[r].players[s].connected
       /\ room'[r].winner = room'[r].players[Other(s)].id

C20_Step ==
  \A r \in RoomIds :
    /\ (room'[r].winner # room[r].winner /\ room'[r].winner # None)
       => C20_ByScore(r) \/ C20_ByForfeit(r)
    /\ (room'[r].winner # room[r].winner /\ room'[r].winner = None)
       => /\ last'.op = "startTimer" /\ last'.res = "started"
          /\ room'[r].gameActive

\* C20: a room with a winner is not active; a winner is recorded only by the
\* tick that brings that slot's score to the threshold or by the disconnect
\* of the other player; a winner is cleared only by a start timer that starts
\* the game, which leaves the room active.
C20_WinnerInactive == []C20_State /\ [][C20_Step]_vars

C20_Witness ==
  /\ last.op = "startTimer" /\ last.pre = "rejoin" /\ last.res = "started"
  /\ room[1].winner = None /\ room[1].gameActive
  /\ gameEnds[1].n = 1

\* C21: every registered room has a player whose socket is connected and
\* whose slot is marked connected; so the disconnect of the last connected
\* player of a room takes the room out of the registry in that step.
C21_NoEmptyRoom ==
  \A r \in rooms :
    \E s \in Sides : Slot(r, s).connected /\ sock[Slot(r, s).id] = "up"

C21_Witness ==
  /\ last.op = "disconnect" /\ last.pre = "lastOne" /\ last.res = "removed"
  /\ created = 1 /\ rooms = {}
  /\ \A s \in Sides : ~Slot(1, s).connected /\ sock[Slot(1, s).id] = "gone"

\* the queue q without the id p, the others in their order
C22_Without(q, p) == SelectSeq(q, LAMBDA x : x # p)

C22_Step ==
  \A p \in Ids :
    (Handled("disconnect", p) /\ InQueue(waitingPlayers, p)
     /\ playerToRoom[p] = None)
    => /\ waitingPlayers' = C22_Without(waitingPlayers, p)
       /\ UNCHANGED <<rooms, room, playerToRoom, intervals, graceQ, created>>
       /\ out' = <<>>

\* C22: the disconnect of a player that is queued and in no room takes the id
\* out of the queue, keeps the other queued ids in their order, changes no
\* room, no mapping and no timer, and emits nothing.
C22_QueuedLeaves == [][C22_Step]_vars

C22_Witness ==
  /\ last.op = "disconnect" /\ last.pre = "queued" /\ last.p = 1
  /\ sock[1] = "gone" /\ waitingPlayers = <<>> /\ rooms = {} /\ out = <<>>

\* this step is a game-loop callback that changed room r
TickOf(r) == last'.op = "tick" /\ room'[r] # room[r]

\* the ball of r after this step is a freshly reset ball
C23_Reset(r) ==
  /\ Centre(room'[r].ball)
  /\ room'[r].ball.vx \in {-BALL_SPEED, BALL_SPEED}
  /\ 2 * Abs(room'[r].ball.vy) >= BALL_SPEED

C23_Scores(r, dl, dr) ==
  /\ room'[r].players["left"].score = room[r].players["left"].score + dl
  /\ room'[r].players["right"].score = room[r].players["right"].score + dr

C23_Step ==
  \A r \in RoomIds :
    (TickOf(r) /\ room[r].gameActive)
    => LET x == Flight(room[r]).x IN
       /\ x < 0 => C23_Scores(r, 0, 1) /\ C23_Reset(r)
       /\ x > GAME_WIDTH => C23_Scores(r, 1, 0) /\ C23_Reset(r)
       /\ (0 <= x /\ x <= GAME_WIDTH) => C23_Scores(r, 0, 0)

\* C23: a tick of an active room whose ball, after integration and paddle
\* handling, has x < 0 adds one to the right score only; with x > 800 it adds
\* one to the left score only; both reset the ball to the centre with
\* vx = 3 or -3 and |vy| >= 1.5; any other tick changes no score.
C23_Scoring == [][C23_Step]_vars

C23_Witness ==
  /\ last.op = "tick" /\ last.res = "scored" /\ last.arg = "left"
  /\ Slot(1, "left").score = 1 /\ Slot(1, "right").score = 1
  /\ Centre(room[1].ball)
  /\ room[1].ball.vx = BALL_SPEED /\ room[1].ball.vy = -BALL_SPEED

C24_State ==
  \A r \in RoomIds :
    0 <= room[r].ball.y /\ room[r].ball.y <= GAME_HEIGHT - BALL_SIZE

C24_Step ==
  \A r \in RoomIds :
    (TickOf(r) /\ room[r].gameActive /\ last'.res # "scored")
    => LET y1 == room[r].ball.y + room[r].ball.vy IN
       IF y1 <= 0 \/ y1 >= GAME_HEIGHT - BALL_SIZE
       THEN /\ room'[r].ball.vy = -room[r].ball.vy
            /\ room'[r].ball.y = Max(0, Min(GAME_HEIGHT - BALL_SIZE, y1))
       ELSE /\ room'[r].ball.vy = room[r].ball.vy
            /\ room'[r].ball.y = y1

\* C24: the ball's y is always within [0, 380]; a tick that does not score
\* inverts vy exactly when the integrated y is <= 0 or >= 380, and then
\* clamps y into [0, 380].
C24_WallBounce == []C24_State /\ [][C24_Step]_vars

C24_Witness ==
  /\ last.op = "tick" /\ room[1].gameActive
  /\ room[1].ball.y = 0 /\ room[1].ball.vy = BALL_SPEED

\* the ball box at (x, y) overlaps the box of the paddle of r on `side`
C25_Overlap(r, side, x, y) ==
  /\ x <= PaddleX(side) + PADDLE_WIDTH
  /\ x + BALL_SIZE >= PaddleX(side)
  /\ y + BALL_SIZE >= room[r].players[side].y
  /\ y <= room[r].players[side].y + PADDLE_HEIGHT

C25_Step ==
  \A r \in RoomIds :
    (TickOf(r) /\ room[r].gameActive /\ last'.res # "scored")
    => LET b == room[r].ball
           x1 == b.x + b.vx
           y1 == room'[r].ball.y
           atLeft == b.vx < 0 /\ C25_Overlap(r, "left", x1, y1)
           atRight == b.vx > 0 /\ C25_Overlap(r, "right", x1, y1)
           inverted == room'[r].ball.vx = -b.vx
       IN
       /\ inverted <=> (atLeft \/ atRight)
       /\ atLeft => room'[r].ball.x = PaddleX("left") + PADDLE_WIDTH
       /\ atRight => room'[r].ball.x = PaddleX("right") - BALL_SIZE
       /\ (hist[r].hit /\ hist[r].n = 0) => ~inverted

\* C25: a tick inverts vx exactly when the ball moves left and overlaps the
\* left paddle or moves right and overlaps the right paddle; the ball is then
\* put at the paddle face (x = 40 or x = 740); the tick after a reflection
\* reflects nothing.
C25_PaddleGate == [][C25_Step]_vars

C25_Witness ==
  /\ last.op = "tick" /\ hist[1].hit /\ hist[1].n = 0
  /\ room[1].ball.x = PaddleX("left") + PADDLE_WIDTH
  /\ room[1].ball.vx = BALL_SPEED

\* the row of p's paddle after this step
C26_RowAfter(p) ==
  room'[playerToRoom[p]].players[SideOf(room[playerToRoom[p]], p)].y

\* the game loop of p's room is running
C26_Ticking(p) ==
  /\ playerToRoom[p] \in rooms
  /\ room[playerToRoom[p]].gameActive /\ intervals[playerToRoom[p]] > 0

C26_Step ==
  \A p \in Ids :
    (/\ last.op = "paddleMove" /\ last.p = p /\ last.res = "moved"
     /\ Handled("paddleMove", p) /\ last'.res = "moved"
     /\ C26_Ticking(p))
    => Abs(C26_RowAfter(p) - last.n) <= PADDLE_SPEED

\* C26 as stated: between two consecutive ticks a paddle's row changes by at
\* most 8 however many move intents arrive; so a move intent handled right
\* after another one of the same player, with no tick in between, leaves the
\* paddle within 8 of the row it had before the first of the two.
C26_PaddlePace == [][C26_Step]_vars

C27_State == \A r \in RoomIds : r \notin rooms => intervals[r] = 0

C27_Step ==
  /\ \A r \in RoomIds :
       (last'.op = "tick" /\ r \notin rooms) => room'[r] = room[r]
  /\ \A i \in 1..Len(out') :
       (last'.op = "tick" /\ out'[i].ev = "gameState")
       => out'[i].room \in rooms /\ out'[i].room \in rooms'

\* C27: a room that is not in the registry has no game loop scheduled, so its
\* loop was cleared no later than the step that took it out; no game-loop
\* callback changes a room that is not registered or emits a snapshot of one.
C27_NoOrphanTick == []C27_State /\ [][C27_Step]_vars

C27_Witness ==
  /\ last.op = "disconnect" /\ last.pre = "lastOne"
  /\ rooms = {} /\ created = 1
  /\ room[1].loop = "stale" /\ intervals[1] = 0

\* the room keeps its ball, slots, scores, flags, game loop and registration
C28_Same(r) ==
  /\ room'[r] = room[r]
  /\ intervals'[r] = intervals[r]
  /\ (r \in rooms') <=> (r \in rooms)

C28_Step ==
  /\ \A r \in RoomIds :
       (/\ last'.op \in {"paddleMove", "disconnect"}
        /\ last'.p # None
        /\ playerToRoom[last'.p] # r) => C28_Same(r)
  /\ \A r \in RoomIds :
       (/\ last'.op = "startTimer"
        /\ graceQ # <<>>
        /\ Head(graceQ).room # r) => C28_Same(r)
  /\ \A r \in RoomIds :
       (last'.op = "tick" /\ ~C28_Same(r))
       => intervals[r] > 0 /\ \A q \in RoomIds \ {r} : C28_Same(q)

\* C28: a move or a disconnect of a socket changes no room but the socket's
\* own, a start timer changes no room but the one it was set for, and a
\* game-loop tick changes no room but the one it runs for.
C28_Isolated == [][C28_Step]_vars

C28_Witness ==
  /\ last.op = "disconnect" /\ last.pre = "both" /\ last.p \in Pair
  /\ room[1].winner # None /\ intervals[1] = 0
  /\ 2 \in rooms /\ room[2].gameActive /\ intervals[2] = 1
  /\ room[2].ball.x # GAME_WIDTH \div 2

\* the disconnect handler has just removed socket p from a room
C29_Removed(p) ==
  last'.op = "disconnect" /\ last'.p = p /\ last'.res = "removed"

\* the opponent of p in p's room was connected when p left
C29_OpponentUp(p) ==
  LET rm == room[playerToRoom[p]]
      o == Other(SideOf(rm, p))
  IN rm.gs[o] /\ rm.players[o].connected

C29_Step ==
  \A p \in Ids :
    C29_Removed(p) =>
      LET r == playerToRoom[p]
          side == SideOf(room[r], p)
          w == room[r].players[Other(side)].id
      IN
      IF C29_OpponentUp(p)
      THEN /\ Len(out') = 3
           /\ out'[1] = Ev("playerDisconnected", r, p, side)
           /\ out'[2].ev = "gameState" /\ out'[2].room = r
           /\ ~out'[2].arg.gameActive
           /\ out'[2].arg.winner = w /\ w # None /\ w # p
           /\ out'[2].arg.players[side] = NoPlayer
           /\ out'[3] = Ev("gameEnd", r, None, w)
      ELSE \A i \in 1..Len(out') : out'[i].ev \notin {"gameState", "gameEnd"}

\* C29: a disconnect that leaves the opponent connected emits, in this
\* order, playerDisconnected with the leaver's side, one snapshot with the
\* game inactive, the opponent as winner and the leaver's slot empty, and
\* gameEnd with the same winner; a disconnect of the last connected player
\* emits no snapshot and no gameEnd.
C29_ForfeitOrder == [][C29_Step]_vars

C29_Witness ==
  /\ last.op = "disconnect" /\ last.pre = "both" /\ last.res = "removed"
  /\ Len(out) = 3
  /\ out[1].ev = "playerDisconnected" /\ out[3].ev = "gameEnd"
  /\ out[2].arg.ball.x # GAME_WIDTH \div 2

\* the ball of a room that has been created is not what it was
C30_BallChanged(r) == r <= created /\ room'[r].ball # room[r].ball

\* the start timer of room r has just started the game
C30_Started(r) ==
  /\ last'.op = "startTimer" /\ last'.res = "started"
  /\ graceQ # <<>> /\ Head(graceQ).room = r

\* C30: (as stated) the ball of a room is changed by the game-loop tick
\* only; join, move, disconnect and the timers they set never change it.
C30_OnlyTick ==
  [][\A r \in RoomIds : C30_BallChanged(r) => last'.op = "tick"]_vars

C30_Step ==
  \A r \in RoomIds :
    C30_BallChanged(r) =>
      \/ last'.op = "tick" /\ intervals[r] > 0
      \/ /\ C30_Started(r)
         /\ room'[r].ball.x = GAME_WIDTH \div 2
         /\ room'[r].ball.y = GAME_HEIGHT \div 2

\* C30: (amended) the ball of a room is changed only by the room's
\* game-loop tick and by the room's start timer when it starts the game,
\* which puts the ball back at the centre with a fresh velocity; the join,
\* move and disconnect handlers never change it.
C30_BallWriters == [][C30_Step]_vars

C30_Witness ==
  /\ last.op = "startTimer" /\ last.res = "started"
  /\ \E r \in rooms :
       /\ room[r].gameActive /\ intervals[r] = 1
       /\ room[r].ball = resetBall(-1, -1)
       /\ out = <<Ev("gameStart", r, None, ""), GameStateEv(r, room[r])>>

\* a slot of a registered room that is not connected stays so while the
\* room is registered, and stays out of the game state
C31_StaysOut ==
  \A r \in rooms, s \in Sides :
    (~room[r].players[s].connected /\ r \in rooms')
    => ~room'[r].players[s].connected /\ ~room'[r].gs[s]

\* the re-attach branch of addPlayer ran only for a connected slot
C31_BranchForConnected ==
  \A p \in Ids :
    (last'.op \in {"joinGame", "addPlayer"} /\ last'.p = p
     /\ last'.res = "rejoin")
    => \E s \in Sides :
         /\ room[playerToRoom[p]].players[s].id = p
         /\ room[playerToRoom[p]].players[s].connected

\* C31: once a slot of a session is disconnected it is never connected
\* again and never put back into the game state, even when addPlayer is
\* called again for the id that left; the re-attach branch of addPlayer
\* only runs for a player whose slot is connected.
C31_NoReattach == [][C31_StaysOut /\ C31_BranchForConnected]_vars

C31_Witness ==
  /\ last.op = "addPlayer" /\ last.res = "null"
  /\ \E r \in rooms, s \in Sides :
       /\ room[r].players[s].id = last.p
       /\ ~room[r].players[s].connected /\ ~room[r].gs[s]
       /\ room[r].winner # None

\* C32: the waiting queue holds at most one id in every reachable state.
C32_QueueAtMostOne == Len(waitingPlayers) <= 1

C32_Witness ==
  /\ last.op = "joinGame" /\ last.pre = "queued" /\ last.res = "null"
  /\ waitingPlayers = <<last.p>>

\* C33: in every registered room whose game is active both slots are in the
\* game state and both players are connected.
C33_ActiveHasBoth ==
  \A r \in rooms :
    room[r].gameActive
    => \A s \in Sides : room[r].gs[s] /\ room[r].players[s].connected

C33_Witness ==
  /\ last.op = "tick" /\ last.res = "scored"
  /\ \E r \in rooms :
       /\ room[r].gameActive
       /\ room[r].players["left"].score + room[r].players["right"].score >= 2
       /\ \A s \in Sides : room[r].gs[s] /\ room[r].players[s].connected

\* C34: in every registered room each score is between 0 and the win
\* threshold, at most one slot has reached the threshold, and a room with
\* a slot at the threshold is not active.
C34_ScoresBounded ==
  \A r \in rooms :
    /\ \A s \in Sides : room[r].players[s].score \in 0..WIN_SCORE
    /\ ~(\A s \in Sides : room[r].players[s].score = WIN_SCORE)
    /\ (\E s \in Sides : room[r].players[s].score = WIN_SCORE)
       => ~room[r].gameActive

C34_Witness ==
  /\ last.op = "tick" /\ last.res = "scored"
  /\ \E r \in rooms, s \in Sides :
       /\ room[r].players[s].score = WIN_SCORE
       /\ room[r].players[Other(s)].score = WIN_SCORE - 1
       /\ ~room[r].gameActive

\* C35: in every registered room the ball's x is between 0 and the field
\* width and both velocity components have magnitude BALL_SPEED.
C35_BallInField ==
  \A r \in rooms :
    /\ 0 <= room[r].ball.x /\ room[r].ball.x <= GAME_WIDTH
    /\ Abs(room[r].ball.vx) = BALL_SPEED
    /\ Abs(room[r].ball.vy) = BALL_SPEED

C35_Witness ==
  /\ last.op = "tick"
  /\ \E r \in rooms :
       /\ room[r].gameActive
       /\ room[r].ball.x < BALL_SPEED /\ room[r].ball.vx < 0
       /\ room[r].players["left"].score + room[r].players["right"].score >= 1

C36_Step ==
  \A r \in rooms :
    (room[r].winner # None /\ r \in rooms' /\ room'[r].winner # None)
    => room'[r].winner = room[r].winner

\* C36: once a registered room has a winner, no step gives it a different
\* winner while the room stays registered.
C36_WinnerFinal == [][C36_Step]_vars

\* C37: every room has at most one game loop scheduled, and a room with a
\* game loop scheduled is in the registry.
C37_OneLoop ==
  \A r \in RoomIds :
    intervals[r] <= 1 /\ (intervals[r] > 0 => r \in rooms)

C37_Witness ==
  /\ last.op = "startTimer" /\ last.pre = "rejoin" /\ last.res = "started"
  /\ \E r \in rooms :
       /\ room[r].loop = "live" /\ intervals[r] = 1
       /\ out = <<Ev("gameStart", r, None, ""), GameStateEv(r, room[r])>>

\* C38: in every registered room that has a winner, the winner is the id of
\* one of the room's players, and that player is in the game state and
\* connected.
C38_WinnerPresent ==
  \A r \in rooms :
    room[r].winner # None
    => \E s \in Sides :
         /\ room[r].players[s].id = room[r].winner
         /\ room[r].gs[s] /\ room[r].players[s].connected

C38_Witness ==
  /\ last.op = "disconnect" /\ last.res = "removed"
  /\ \E r \in rooms, s \in Sides :
       /\ room[r].winner = room[r].players[s].id
       /\ room[r].players[s].score = WIN_SCORE
       /\ room[r].gs[s] /\ room[r].players[s].connected
       /\ ~room[r].gs[Other(s)]
====
